---- MODULE Spec2Model ----
(***************************************************************************)
(* Model of the text-to-voice pipeline of nickbelgau/TextToVoice:          *)
(*   - core/alignment.py : normalize_for_match, normalize_with_map,        *)
(*                         _score, find_best_match, align_segments_to_text *)
(*   - core/stt.py       : merge_segments                                  *)
(*   - app.py            : split_text_into_chunks_with_offsets, the        *)
(*                         generation job                                  *)
(*   - core/audio_utils.py, core/storage.py : stitch_wavs,                 *)
(*                         convert_wav_to_mp3, the store writes, as the    *)
(*                         job calls them                                  *)
(*                                                                         *)
(* A Python str is a sequence of one-character strings.  Python indices    *)
(* are 0-based and are kept 0-based in every stored value (offsets, maps,  *)
(* cursors); At and Slice translate to the 1-based TLA+ sequences.         *)
(***************************************************************************)
EXTENDS Integers, Sequences, FiniteSets, TLC

VARIABLES
    \* normalize_with_map / normalize_for_match run on one input string
    normPc, normIn, normOut, normQ,
    \* merge_segments run: input list, thresholds, first and second result
    mergePc, mergeIn, mergeSec, mergeChars, mergeOut, mergeOut2,
    \* split_text_into_chunks_with_offsets frame
    splitPc, text, max_chars, spans, pIdx, i, cur_start, cur_end, chunks, result,
    \* align_segments_to_text frame (+ the build's optional rapidfuzz import)
    alignPc, rapidfuzz, source_text, cfg, norm_source, norm_map, cursor,
    segments,
    \* generation job of app.py (its full_text is text, its chunks is result,
    \* its segs is job_segs):
    \* position, enumerate index, the job's locals, the status widget, the
    \* object store, and the merged lists of the chunks gone through
    jobPc, chunk_index, wav_paths, job_segs, audio_offset, all_segments, manifest,
    status, store, segs_log,
    \* the stitched file (<< >> before it is written) and the outcome of the
    \* mp3 conversion (<< >> before it is called)
    master_wav, encoded,
    \* the history list of the script run, the object history.json of the
    \* store, and st.session_state (mode, selected_id, force_select_id,
    \* pending_doc)
    history, history_json, session_state

normVars  == <<normPc, normIn, normOut, normQ>>
mergeVars == <<mergePc, mergeIn, mergeSec, mergeChars, mergeOut, mergeOut2>>
splitVars == <<splitPc, text, max_chars, spans, pIdx, i, cur_start, cur_end,
               chunks, result>>
alignVars == <<alignPc, rapidfuzz, source_text, cfg, norm_source, norm_map,
               cursor, segments>>
sessionVars == <<history, history_json, session_state>>
jobVars   == <<jobPc, chunk_index, wav_paths, job_segs, audio_offset, all_segments,
               manifest, status, store, segs_log, master_wav, encoded,
               sessionVars>>
vars == <<normVars, mergeVars, splitVars, alignVars, jobVars>>

(***************************************************************************)
(* Python str helpers                                                      *)
(***************************************************************************)

\* s[k] for a 0-based index k
At(s, k) == s[k + 1]

\* s[a:b] for 0 <= a, b (Python clamps b to len(s); empty when a >= b)
Slice(s, a, b) ==
    LET e == IF b > Len(s) THEN Len(s) ELSE b
    IN  IF a >= e THEN << >> ELSE SubSeq(s, a + 1, e)

Min(a, b) == IF a <= b THEN a ELSE b
Max(a, b) == IF a >= b THEN a ELSE b

\* the element of a one-element set; { F(x) : x \in {e} } evaluates e once
TheOnly(S) == CHOOSE v \in S : TRUE

\* all strings over alphabet A of length lo..hi
Strings(A, lo, hi) == UNION { [1..n -> A] : n \in lo..hi }

LowerLetters == <<"a","b","c","d","e","f","g","h","i","j","k","l","m",
                  "n","o","p","q","r","s","t","u","v","w","x","y","z">>
UpperLetters == <<"A","B","C","D","E","F","G","H","I","J","K","L","M",
                  "N","O","P","Q","R","S","T","U","V","W","X","Y","Z">>
Digits == {"0","1","2","3","4","5","6","7","8","9"}

Range(f) == { f[x] : x \in DOMAIN f }

\* U+0130 (capital I with dot above) is the one code point whose str.lower()
\* has two characters: "i" followed by U+0307 (combining dot above).
CapIDot == "U+0130"
CombDot == "U+0307"

\* str.isalnum() of one character
IsAlnumChar(c) ==
    c \in Range(LowerLetters) \cup Range(UpperLetters) \cup Digits \cup {CapIDot}

\* str.isspace() of one character (the ASCII whitespace of the model)
IsSpaceChar(c) == c \in {" ", "\t", "\n", "\r"}

\* the character taken as it is, not lowercased
LowerSkipped(c) == << c >>

\* str.lower() of one character: a string (two characters for U+0130)
Lower(c) ==
    IF c \in Range(UpperLetters)
    THEN << LowerLetters[CHOOSE k \in 1..26 : UpperLetters[k] = c] >>
    ELSE IF c = CapIDot THEN << "i", CombDot >>
    ELSE << c >>

\* str.isalnum() / str.isspace() of a string: non-empty and every character is
IsAlnum(s) == Len(s) > 0 /\ \A k \in 1..Len(s) : IsAlnumChar(s[k])
IsSpace(s) == Len(s) > 0 /\ \A k \in 1..Len(s) : IsSpaceChar(s[k])

\* str.strip(): drops leading and trailing whitespace
RECURSIVE LStrip(_)
LStrip(s) == IF Len(s) > 0 /\ IsSpaceChar(s[1]) THEN LStrip(Tail(s)) ELSE s
RECURSIVE RStrip(_)
RStrip(s) ==
    IF Len(s) > 0 /\ IsSpaceChar(s[Len(s)])
    THEN RStrip(SubSeq(s, 1, Len(s) - 1)) ELSE s
Strip(s) == RStrip(LStrip(s))

(***************************************************************************)
(* core/alignment.py: normalization                                        *)
(***************************************************************************)

\* inner while of the hyphenation rule: skip "\r", "\n", " ", "\t" from k
RECURSIVE SkipBreak(_, _)
SkipBreak(s, k) ==
    IF k < Len(s) /\ At(s, k) \in {"\r", "\n", " ", "\t"}
    THEN SkipBreak(s, k + 1) ELSE k

\* the hyphenation test: ch == "-" and i + 1 < n and s[i + 1] in ("\n", "\r")
IsHyphenBreak(s, k) ==
    At(s, k) = "-" /\ k + 1 < Len(s) /\ At(s, k + 1) \in {"\n", "\r"}

\* one iteration of the while loop of normalize_with_map; st holds the locals
\* [k (the index i), out_chars, idx_map, prev_space]
MapStep(s, st) ==
    IF st.k >= Len(s) THEN st    \* while i < n
    ELSE IF IsHyphenBreak(s, st.k)
    THEN [st EXCEPT !.k = SkipBreak(s, st.k + 1)]
    ELSE LET low == Lower(At(s, st.k)) IN
         IF IsAlnum(low)
         THEN [k |-> st.k + 1, out_chars |-> st.out_chars \o low,
               idx_map |-> Append(st.idx_map, st.k), prev_space |-> FALSE]
         ELSE IF IsSpace(low)
         THEN IF ~st.prev_space
              THEN [k |-> st.k + 1, out_chars |-> Append(st.out_chars, " "),
                    idx_map |-> Append(st.idx_map, st.k), prev_space |-> TRUE]
              ELSE [st EXCEPT !.k = st.k + 1]
         ELSE \* punctuation -> space (but collapse)
              IF ~st.prev_space
              THEN [k |-> st.k + 1, out_chars |-> Append(st.out_chars, " "),
                    idx_map |-> Append(st.idx_map, st.k), prev_space |-> TRUE]
              ELSE [st EXCEPT !.k = st.k + 1]

\* the while loop of normalize_with_map: n iterations from state st (an
\* iteration after the loop condition has become false changes nothing; every
\* iteration advances i, so len(s) of them finish the loop), evaluated by
\* halving n
RECURSIVE MapLoop(_, _, _)
MapLoop(s, st, n) ==
    IF n <= 0 THEN st
    ELSE IF n = 1 THEN MapStep(s, st)
    ELSE TheOnly({ MapLoop(s, mid, n - (n \div 2)) :
                   mid \in { MapLoop(s, st, n \div 2) } })

\* "trim left": pop index 0 of both lists while out_chars[0] == " "
RECURSIVE TrimLeft(_)
TrimLeft(r) ==
    IF Len(r.norm) > 0 /\ r.norm[1] = " "
    THEN TrimLeft([norm |-> Tail(r.norm), map |-> Tail(r.map)])
    ELSE r

\* the right trim left out
TrimRightSkipped(r) == r

\* "trim right": pop the last element of both lists while out_chars[-1] == " "
RECURSIVE TrimRight(_)
TrimRight(r) ==
    IF Len(r.norm) > 0 /\ r.norm[Len(r.norm)] = " "
    THEN TrimRight([norm |-> SubSeq(r.norm, 1, Len(r.norm) - 1),
                    map  |-> SubSeq(r.map, 1, Len(r.map) - 1)])
    ELSE r

\* normalize_with_map(s) -> (norm_string, norm_index_to_orig_index)
normalize_with_map(s) ==
    IF Len(s) = 0 THEN [norm |-> << >>, map |-> << >>]
    ELSE TheOnly({
           IF Len(end.out_chars) = 0 THEN [norm |-> << >>, map |-> << >>]
           ELSE TrimRight(TrimLeft([norm |-> end.out_chars, map |-> end.idx_map])) :
           end \in { MapLoop(s, [k |-> 0, out_chars |-> << >>, idx_map |-> << >>,
                                 prev_space |-> TRUE], Len(s)) } })

\* one iteration of the while loop of normalize_for_match; st holds the locals
\* [k (the index i), out, prev_space]
MatchStep(s, st) ==
    IF st.k >= Len(s) THEN st    \* while i < n
    ELSE IF IsHyphenBreak(s, st.k)
    THEN [st EXCEPT !.k = SkipBreak(s, st.k + 1)]
    ELSE LET low == Lower(At(s, st.k)) IN
         IF IsAlnum(low)
         THEN [k |-> st.k + 1, out |-> st.out \o low, prev_space |-> FALSE]
         ELSE IF IsSpace(low)
         THEN IF ~st.prev_space
              THEN [k |-> st.k + 1, out |-> Append(st.out, " "), prev_space |-> TRUE]
              ELSE [st EXCEPT !.k = st.k + 1]
         ELSE \* punctuation -> space (but collapse)
              IF ~st.prev_space
              THEN [k |-> st.k + 1, out |-> Append(st.out, " "), prev_space |-> TRUE]
              ELSE [st EXCEPT !.k = st.k + 1]

\* the while loop of normalize_for_match: n iterations from state st, as MapLoop
RECURSIVE MatchLoop(_, _, _)
MatchLoop(s, st, n) ==
    IF n <= 0 THEN st
    ELSE IF n = 1 THEN MatchStep(s, st)
    ELSE TheOnly({ MatchLoop(s, mid, n - (n \div 2)) :
                   mid \in { MatchLoop(s, st, n \div 2) } })

\* normalize_for_match(s) -> str
normalize_for_match(s) ==
    IF Len(s) = 0 THEN << >>
    ELSE TheOnly({
           Strip(end.out) :
           end \in { MatchLoop(s, [k |-> 0, out |-> << >>, prev_space |-> TRUE],
                               Len(s)) } })

(***************************************************************************)
(* core/alignment.py: _score                                               *)
(* rapidfuzz is the module global _RAPIDFUZZ: TRUE when the optional import *)
(* succeeded in this build, FALSE when difflib is used.                    *)
(***************************************************************************)

\* length of the common run of a from p and b from q (0-based), inside [.., ahi) x [.., bhi)
RunLen(a, p, ahi, b, q, bhi) ==
    LET runs == { k \in 0..Min(ahi - p, bhi - q) :
                    \A d \in 0..(k - 1) : At(a, p + d) = At(b, q + d) }
    IN  CHOOSE k \in runs : \A h \in runs : h <= k

\* SequenceMatcher.find_longest_match(alo, ahi, blo, bhi): the longest matching
\* block <<p, q, k>>; of those the one starting earliest in a, then earliest in b
FindLongestMatch(a, alo, ahi, b, blo, bhi) ==
    TheOnly({
        CHOOSE x \in blocks :
            \A y \in blocks :
                \/ x[3] > y[3]
                \/ x[3] = y[3] /\ x[1] < y[1]
                \/ x[3] = y[3] /\ x[1] = y[1] /\ x[2] <= y[2] :
        blocks \in { { <<p, q, RunLen(a, p, ahi, b, q, bhi)>> :
                         p \in alo..(ahi - 1), q \in blo..(bhi - 1) } } })

\* SequenceMatcher.get_matching_blocks: total size of the blocks found by
\* splitting around the longest match, recursively to its left and right
RECURSIVE MatchingSize(_, _, _, _, _, _)
MatchingSize(a, alo, ahi, b, blo, bhi) ==
    IF alo >= ahi \/ blo >= bhi THEN 0
    ELSE TheOnly({
           IF m[3] = 0 THEN 0
           ELSE m[3] + MatchingSize(a, alo, m[1], b, blo, m[2])
                     + MatchingSize(a, m[1] + m[3], ahi, b, m[2] + m[3], bhi) :
           m \in { FindLongestMatch(a, alo, ahi, b, blo, bhi) } })

\* int(difflib.SequenceMatcher(None, a, b).ratio() * 100), ratio = 2.0 * M / T;
\* the float product truncates to floor(200 * M / T) for all T <= 80 (no autojunk
\* below 200 characters)
DifflibScore(a, b) ==
    (200 * MatchingSize(a, 0, Len(a), b, 0, Len(b))) \div (Len(a) + Len(b))

\* one row of the longest-common-subsequence table: prev is the row of a[0:p],
\* the result the row of a[0:p+1], where ch = a[p]; entry q + 1 of a row is the LCS
\* length against b[0:q], and the best use of ch pairs it with its last occurrence
\* in b[0:q]
LcsRow(ch, b, prev) ==
    [r \in 1..(Len(b) + 1) |->
        LET occ == { k \in 1..(r - 1) : b[k] = ch } IN
        IF occ = {} THEN prev[r]
        ELSE Max(prev[r], prev[CHOOSE k \in occ : \A h \in occ : h <= k] + 1)]
    \o << >>

\* the table row by row; st = [p, row]: row is the row of a[0:p]
LcsStep(ab, st) ==
    IF st.p >= Len(ab.a) THEN st
    ELSE [p |-> st.p + 1, row |-> LcsRow(ab.a[st.p + 1], ab.b, st.row)]

\* n rows of the table from state st, evaluated by halving n
RECURSIVE LcsRows(_, _, _)
LcsRows(ab, st, n) ==
    IF n <= 0 THEN st
    ELSE IF n = 1 THEN LcsStep(ab, st)
    ELSE TheOnly({ LcsRows(ab, mid, n - (n \div 2)) :
                   mid \in { LcsRows(ab, st, n \div 2) } })

\* length of the longest common subsequence of a and b
Lcs(a, b) ==
    LcsRows([a |-> a, b |-> b],
            [p |-> 0, row |-> [q \in 1..(Len(b) + 1) |-> 0] \o << >>],
            Len(a)).row[Len(b) + 1]

\* int(rapidfuzz.fuzz.ratio(a, b)): 100 * (1 - indel_distance / (len(a) + len(b))),
\* indel_distance = len(a) + len(b) - 2 * LCS; in double arithmetic the product falls
\* just below the exact quotient for the <<LCS, len(a) + len(b)>> pairs listed
RapidfuzzScore(a, b) ==
    LET t     == Len(a) + Len(b)
        l     == Lcs(a, b)
        exact == (200 * l) \div t
    IN  IF <<l, t>> \in { <<1, 10>>, <<1, 20>>, <<2, 20>>, <<3, 30>>, <<2, 40>>,
                          <<4, 40>>, <<9, 40>> }
        THEN exact - 1 ELSE exact

\* _score(a, b)
Score(a, b) ==
    IF Len(a) = 0 \/ Len(b) = 0 THEN 0
    ELSE IF rapidfuzz THEN RapidfuzzScore(a, b)
    ELSE DifflibScore(a, b)

(***************************************************************************)
(* core/alignment.py: find_best_match                                      *)
(* cfg is an AlignConfig: [lookback, ahead, threshold, min_query_len].     *)
(* The result is NoMatch (None) or [orig_s, orig_e, new_cursor, score].    *)
(***************************************************************************)

NoMatch == [none |-> TRUE]

\* s.find(sub, lo, hi): the lowest index k with lo <= k, k + len(sub) <= min(hi, len(s))
\* and s[k:k+len(sub)] == sub, or -1
Find(s, sub, lo, hi) ==
    LET e    == Min(hi, Len(s))
        hits == { k \in lo..(e - Len(sub)) : Slice(s, k, k + Len(sub)) = sub }
    IN  IF hits = {} THEN -1 ELSE CHOOSE k \in hits : \A h \in hits : k <= h

\* orig_e with the "+ 1" left out
OrigEndInclusive(norm_to_orig, norm_e) == At(norm_to_orig, norm_e - 1)

\* orig_e = norm_to_orig[norm_e - 1] + 1
OrigEnd(norm_to_orig, norm_e) == At(norm_to_orig, norm_e - 1) + 1

\* the acceptance test with the comparison turned strict-less-or-equal
BelowThresholdOrEqual(best_score, best_norm_s, c) ==
    best_score <= c.threshold \/ best_norm_s < 0

\* best_score < cfg.threshold or best_norm_s < 0
BelowThreshold(best_score, best_norm_s, c) ==
    best_score < c.threshold \/ best_norm_s < 0

\* the guard with the length test left out
TooShortOnlyEmpty(query_norm, c) == Len(query_norm) = 0

\* not query_norm or len(query_norm) < cfg.min_query_len
TooShort(query_norm, c) ==
    Len(query_norm) = 0 \/ Len(query_norm) < c.min_query_len

\* one iteration of "for norm_s in range(region_start, region_end - L + 1, step)";
\* env = [src, query_norm, stop, step], st = [norm_s, best_score, best_norm_s, exit]
\* where exit records the break
ScanStep(env, st) ==
    IF st.exit \/ st.norm_s >= env.stop THEN st
    ELSE TheOnly({
           IF sc > st.best_score
           THEN [norm_s |-> st.norm_s + env.step, best_score |-> sc,
                 best_norm_s |-> st.norm_s,
                 exit |-> (sc >= 96)]          \* early exit if basically perfect
           ELSE [st EXCEPT !.norm_s = st.norm_s + env.step] :
           sc \in { Score(env.query_norm,
                          Slice(env.src, st.norm_s, st.norm_s + Len(env.query_norm))) } })

\* n iterations of the for loop from state st (an iteration after the range is
\* exhausted or the break was taken changes nothing), evaluated by halving n
RECURSIVE ScanIterations(_, _, _)
ScanIterations(env, st, n) ==
    IF n <= 0 THEN st
    ELSE IF n = 1 THEN ScanStep(env, st)
    ELSE TheOnly({ ScanIterations(env, mid, n - (n \div 2)) :
                   mid \in { ScanIterations(env, st, n \div 2) } })

\* the fuzzy scan from region_start: at most stop - region_start iterations;
\* returns <<best_score, best_norm_s>>
ScanLoop(src, query_norm, region_start, stop, step) ==
    LET end == ScanIterations([src |-> src, query_norm |-> query_norm,
                               stop |-> stop, step |-> step],
                              [norm_s |-> region_start, best_score |-> -1,
                               best_norm_s |-> -1, exit |-> FALSE],
                              stop - region_start)
    IN  <<end.best_score, end.best_norm_s>>

\* Phase B of find_best_match
FuzzyPhase(src, norm_to_orig, query_norm, start_search, end_search, c) ==
    LET L == Len(query_norm) IN
    IF end_search - start_search < L THEN NoMatch
    ELSE LET step == Max(1, L \div 6) IN
         TheOnly({
           IF BelowThreshold(best[1], best[2], c) THEN NoMatch
           ELSE [orig_s     |-> At(norm_to_orig, best[2]),
                 orig_e     |-> OrigEnd(norm_to_orig, best[2] + L),
                 new_cursor |-> best[2] + L,
                 score      |-> best[1]] :
           best \in { ScanLoop(src, query_norm, start_search, end_search - L + 1,
                               step) } })

\* the search window placed at the cursor, without the lookback
StartSearchAtCursor(cur, c) == Max(0, cur)

\* start_search = max(0, cursor - cfg.lookback)
StartSearch(cur, c) == Max(0, cur - c.lookback)

\* the window with no bound ahead of the cursor
EndSearchWholeSource(n, cur, c) == n

\* end_search = min(n, cursor + cfg.ahead)
EndSearch(n, cur, c) == Min(n, cur + c.ahead)

\* find_best_match(norm_source, norm_to_orig, query_norm, cursor, cfg)
find_best_match(src, norm_to_orig, query_norm, cur, c) ==
    IF TooShort(query_norm, c) THEN NoMatch
    ELSE LET n            == Len(src)
             L            == Len(query_norm)
             start_search == StartSearch(cur, c)
             end_search   == EndSearch(n, cur, c)
         IN  TheOnly({
               IF idx # -1 /\ (idx + L) - 1 < Len(norm_to_orig)
               THEN [orig_s     |-> At(norm_to_orig, idx),
                     orig_e     |-> OrigEnd(norm_to_orig, idx + L),
                     new_cursor |-> idx + L,
                     score      |-> 100]
               ELSE FuzzyPhase(src, norm_to_orig, query_norm, start_search,
                               end_search, c) :
               idx \in { Find(src, query_norm, start_search, end_search) } })

(***************************************************************************)
(* core/alignment.py: align_segments_to_text                               *)
(* A segment is a dict, modelled as a record: [text] before it is aligned, *)
(* with orig_char_start_local, orig_char_end_local and align_score added   *)
(* when it is matched.  segments holds the part of the list the loop has   *)
(* gone through; the next element of the list is drawn when the loop       *)
(* reaches it.                                                             *)
(***************************************************************************)

\* norm_source, norm_map = normalize_with_map(source_text); empty: return segments
AlignEmptySource ==
    /\ alignPc = "call"
    /\ Len(normalize_with_map(source_text).norm) = 0
    /\ norm_source' = << >> /\ norm_map' = << >>
    /\ alignPc' = "done"
    /\ UNCHANGED <<rapidfuzz, source_text, cfg, cursor, segments,
                   normVars, mergeVars, splitVars, jobVars>>

\* norm_source, norm_map = normalize_with_map(source_text); cursor = 0
AlignBegin ==
    /\ alignPc = "call"
    /\ LET r == normalize_with_map(source_text) IN
       /\ Len(r.norm) > 0
       /\ norm_source' = r.norm /\ norm_map' = r.map
    /\ cursor' = 0
    /\ alignPc' = "loop"
    /\ UNCHANGED <<rapidfuzz, source_text, cfg, segments,
                   normVars, mergeVars, splitVars, jobVars>>

\* q of one loop iteration: normalize_for_match((seg.get("text") or "").strip())
QueryOf(sg) == normalize_for_match(Strip(sg.text))

\* the cursor after a rejected segment: one further, without the cap
RejectCursorStepOnly(cur, q) == cur + 1

\* the cursor after a rejected segment, without the cap
RejectCursorUncapped(cur, q) == cur + Max(1, Len(q) \div 3)

\* the cursor after a rejected segment
RejectCursor(cur, q) == Min(Len(norm_source), cur + Max(1, Len(q) \div 3))

\* the keys the loop adds to a matched segment dict
AlignedFields == {"orig_char_start_local", "orig_char_end_local", "align_score"}

\* seg after the three assignments of a match m: its other keys are kept
Aligned(sg, m) ==
    [f \in DOMAIN sg \cup AlignedFields |->
        IF f = "orig_char_start_local" THEN m.orig_s
        ELSE IF f = "orig_char_end_local" THEN m.orig_e
        ELSE IF f = "align_score" THEN m.score
        ELSE sg[f]]

\* one iteration of "for seg in segments" on the segment sg
AlignSegment(sg) ==
    /\ alignPc = "loop"
    /\ \E q \in { QueryOf(sg) } :
       \E m \in { find_best_match(norm_source, norm_map, q, cursor, cfg) } :
           IF m = NoMatch
           THEN /\ cursor' = RejectCursor(cursor, q)
                /\ segments' = Append(segments, sg)
           ELSE /\ segments' = Append(segments, Aligned(sg, m))
                /\ cursor' = m.new_cursor
    /\ UNCHANGED <<alignPc, rapidfuzz, source_text, cfg, norm_source, norm_map,
                   normVars, mergeVars, splitVars, jobVars>>

\* the list is exhausted: return segments
AlignReturn ==
    /\ alignPc = "loop"
    /\ alignPc' = "done"
    /\ UNCHANGED <<rapidfuzz, source_text, cfg, norm_source, norm_map, cursor,
                   segments, normVars, mergeVars, splitVars, jobVars>>

(***************************************************************************)
(* core/stt.py: merge_segments                                             *)
(* A segment is a record [start, end, text]; times are integers (the       *)
(* code's floats, restricted to values on which float arithmetic is exact).*)
(***************************************************************************)

\* txt = (s.get("text") or "").strip()
SegText(s) == Strip(s.text)

\* the acceptance test with the character bound left out
MergeAcceptsDurationOnly(duration, candidate_text, max_seconds, max_chrs) ==
    duration <= max_seconds

\* duration <= max_seconds and len(candidate_text) <= max_chars
MergeAccepts(duration, candidate_text, max_seconds, max_chrs) ==
    duration <= max_seconds /\ Len(candidate_text) <= max_chrs

\* candidate_end = end, end = float(s.get("end", start))
CandidateEnd(s) == s.end

\* the end of the function with the running segment forgotten
FinalFlushDropped(merged, cur) == merged

\* if cur is not None: merged.append(cur)
FinalFlush(merged, cur) ==
    IF cur # << >> THEN Append(merged, cur[1]) ELSE merged

\* the for loop of merge_segments from (1-based) position k; cur is the running
\* segment as a sequence of length 0 (None) or 1
RECURSIVE MergeLoop(_, _, _, _, _, _)
MergeLoop(segs, k, merged, cur, max_seconds, max_chrs) ==
    IF k > Len(segs)
    THEN FinalFlush(merged, cur)
    ELSE LET s   == segs[k]
             txt == SegText(s)
         IN
         IF Len(txt) = 0
         THEN MergeLoop(segs, k + 1, merged, cur, max_seconds, max_chrs)
         ELSE IF cur = << >>
         THEN MergeLoop(segs, k + 1, merged,
                        << [start |-> s.start, end |-> s.end, text |-> txt] >>,
                        max_seconds, max_chrs)
         ELSE LET candidate_text == Strip(cur[1].text \o <<" ">> \o txt)
                  candidate_end  == CandidateEnd(s)
                  duration       == candidate_end - cur[1].start
              IN
              IF MergeAccepts(duration, candidate_text, max_seconds, max_chrs)
              THEN MergeLoop(segs, k + 1, merged,
                             << [cur[1] EXCEPT !.end = candidate_end,
                                               !.text = candidate_text] >>,
                             max_seconds, max_chrs)
              ELSE MergeLoop(segs, k + 1, Append(merged, cur[1]),
                             << [start |-> s.start, end |-> s.end, text |-> txt] >>,
                             max_seconds, max_chrs)

\* merge_segments(segments, max_seconds, max_chars) -> list of segments
merge_segments(segs, max_seconds, max_chrs) ==
    MergeLoop(segs, 1, << >>, << >>, max_seconds, max_chrs)

(***************************************************************************)
(* app.py: split_text_into_chunks_with_offsets                             *)
(* A chunk is a record [text, orig_start, orig_end]; a span is a pair      *)
(* <<start, end>>.  The function is modelled statement by statement: the   *)
(* variables below are its locals, splitPc is its position.                *)
(***************************************************************************)

\* cur_start / cur_end = None
None == -1

\* first index >= k of t that holds no "\n" (the end of the newline run at k)
RECURSIVE NewlineRunEnd(_, _)
NewlineRunEnd(t, k) ==
    IF k < Len(t) /\ At(t, k) = "\n" THEN NewlineRunEnd(t, k + 1) ELSE k

\* the loop over sep_pat.finditer(text), sep_pat = \n{2,}: scanning from k,
\* start is the start of the open span, acc the spans so far; the result is
\* the list before the trailing "if start < len(text)" statement
RECURSIVE SepLoop(_, _, _, _)
SepLoop(t, k, start, acc) ==
    IF k >= Len(t) THEN [spans |-> acc, start |-> start]
    ELSE IF At(t, k) = "\n"
    THEN LET e == NewlineRunEnd(t, k) IN
         IF e - k >= 2
         THEN SepLoop(t, e, e, Append(acc, <<start, e>>))   \* span includes separator
         ELSE SepLoop(t, e, start, acc)
    ELSE SepLoop(t, k + 1, start, acc)

\* the span list without the trailing paragraph
ParagraphSpansNoTail(t) == SepLoop(t, 0, 0, << >>).spans

\* spans: the paragraph spans of text, each separator inside the span before it
ParagraphSpans(t) ==
    LET r == SepLoop(t, 0, 0, << >>)
    IN  IF r.start < Len(t) THEN Append(r.spans, <<r.start, Len(t)>>) ELSE r.spans

\* s.rfind(pat): the highest 0-based index where pat occurs in s, or -1
Rfind(s, pat) ==
    LET hits == { k \in 0..(Len(s) - Len(pat)) : Slice(s, k, k + Len(pat)) = pat }
    IN  IF hits = {} THEN -1 ELSE CHOOSE k \in hits : \A h \in hits : h <= k

\* the sentence cut taken wherever it is found
SentenceCutMinZero(mc) == 0

\* int(max_chars * 0.55): the float product truncates to floor(55 * max_chars / 100)
\* for every max_chars below 200000
SentenceCutMin(mc) == (mc * 55) \div 100

\* piece_end without the two guards "if cut <= 0" and "if piece_end <= i"
PieceEndUnguarded(t, k, p_end, mc) ==
    LET j      == Min(p_end, k + mc)
        slice_ == Slice(t, k, j)
        cut1   == Rfind(slice_, <<".", " ">>)
        cut2   == IF cut1 < SentenceCutMin(mc) THEN Rfind(slice_, <<" ">>) ELSE cut1
    IN  k + cut2

\* piece_end of one iteration of the while loop at scan position k
PieceEnd(t, k, p_end, mc) ==
    LET j      == Min(p_end, k + mc)
        slice_ == Slice(t, k, j)
        cut1   == Rfind(slice_, <<".", " ">>)
        cut2   == IF cut1 < SentenceCutMin(mc) THEN Rfind(slice_, <<" ">>) ELSE cut1
        cut    == IF cut2 <= 0 THEN Len(slice_) ELSE cut2
        piece_end == k + cut
    IN  IF piece_end <= k THEN j ELSE piece_end

\* chunks after flush() (cur_start, cur_end are reset by the caller)
Flushed(t, chs, cs, ce) ==
    IF cs = None \/ ce = None \/ ce <= cs THEN chs
    ELSE Append(chs, [text |-> Slice(t, cs, ce), orig_start |-> cs, orig_end |-> ce])

\* the packing test with the paragraph's own length in place of the union's
FitsCurrentParagraphOnly(p_start, p_end, cs, mc) == (p_end - p_start) <= mc

\* (p_end - cur_start) <= max_chars
FitsCurrent(p_start, p_end, cs, mc) == (p_end - cs) <= mc

\* [c for c in chunks if (c["text"] or "").strip()]
RECURSIVE FilterEmptyish(_)
FilterEmptyish(chs) ==
    IF chs = << >> THEN << >>
    ELSE IF Len(Strip(Head(chs).text)) > 0
         THEN <<Head(chs)>> \o FilterEmptyish(Tail(chs))
         ELSE FilterEmptyish(Tail(chs))

\* if not text: return []
SplitEmpty ==
    /\ splitPc = "call" /\ Len(text) = 0
    /\ result' = << >> /\ splitPc' = "done"
    /\ UNCHANGED <<text, max_chars, spans, pIdx, i, cur_start, cur_end, chunks,
                   normVars, mergeVars, alignVars, jobVars>>

\* spans computed; chunks = [], cur_start = cur_end = None
SplitSpans ==
    /\ splitPc = "call" /\ Len(text) > 0
    /\ spans' = ParagraphSpans(text)
    /\ pIdx' = 1 /\ chunks' = << >> /\ cur_start' = None /\ cur_end' = None
    /\ splitPc' = "para"
    /\ UNCHANGED <<text, max_chars, i, result,
                   normVars, mergeVars, alignVars, jobVars>>

\* for (p_start, p_end) in spans: a paragraph longer than max_chars: flush(), i = p_start
HugeParagraph ==
    /\ splitPc = "para" /\ pIdx <= Len(spans)
    /\ spans[pIdx][2] - spans[pIdx][1] > max_chars
    /\ chunks' = Flushed(text, chunks, cur_start, cur_end)
    /\ cur_start' = None /\ cur_end' = None
    /\ i' = spans[pIdx][1]
    /\ splitPc' = "cut"
    /\ UNCHANGED <<text, max_chars, spans, pIdx, result,
                   normVars, mergeVars, alignVars, jobVars>>

\* one iteration of "while i < p_end": cut a piece and move i to its end
CutPiece ==
    /\ splitPc = "cut" /\ i < spans[pIdx][2]
    /\ LET piece_end == PieceEnd(text, i, spans[pIdx][2], max_chars) IN
       /\ chunks' = Append(chunks, [text |-> Slice(text, i, piece_end),
                                    orig_start |-> i, orig_end |-> piece_end])
       /\ i' = piece_end
    /\ UNCHANGED <<splitPc, text, max_chars, spans, pIdx, cur_start, cur_end, result,
                   normVars, mergeVars, alignVars, jobVars>>

\* the while loop ends; continue with the next paragraph
CutDone ==
    /\ splitPc = "cut" /\ i >= spans[pIdx][2]
    /\ pIdx' = pIdx + 1 /\ splitPc' = "para"
    /\ UNCHANGED <<text, max_chars, spans, i, cur_start, cur_end, chunks, result,
                   normVars, mergeVars, alignVars, jobVars>>

\* a normal paragraph: start, extend or flush-and-restart the current chunk
NormalParagraph ==
    /\ splitPc = "para" /\ pIdx <= Len(spans)
    /\ spans[pIdx][2] - spans[pIdx][1] <= max_chars
    /\ LET p_start == spans[pIdx][1]
           p_end   == spans[pIdx][2]
       IN  IF cur_start = None
           THEN cur_start' = p_start /\ cur_end' = p_end /\ chunks' = chunks
           ELSE IF FitsCurrent(p_start, p_end, cur_start, max_chars)
           THEN cur_start' = cur_start /\ cur_end' = p_end /\ chunks' = chunks
           ELSE /\ chunks' = Flushed(text, chunks, cur_start, cur_end)
                /\ cur_start' = p_start /\ cur_end' = p_end
    /\ pIdx' = pIdx + 1
    /\ UNCHANGED <<splitPc, text, max_chars, spans, i, result,
                   normVars, mergeVars, alignVars, jobVars>>

\* after the for loop: flush() and return the chunks that are not empty-ish
SplitReturn ==
    /\ splitPc = "para" /\ pIdx > Len(spans)
    /\ chunks' = Flushed(text, chunks, cur_start, cur_end)
    /\ cur_start' = None /\ cur_end' = None
    /\ result' = FilterEmptyish(chunks')
    /\ splitPc' = "done"
    /\ UNCHANGED <<text, max_chars, spans, pIdx, i,
                   normVars, mergeVars, alignVars, jobVars>>

(***************************************************************************)
(* app.py: the generation job run by the "Generate" button                 *)
(* The job calls the splitter on the document (text, result of the split   *)
(* frame), then for each chunk: synthesis to a WAV file, recognition,      *)
(* merge_segments, align_segments_to_text (the align frame), and the       *)
(* finalize loop; then stitch_wavs, the store writes, and the status.      *)
(* A WAV file is a record [spec, dur]: spec is (channels, sample width,    *)
(* frame rate) as _wav_spec returns it, dur the value of                   *)
(* wav_duration_seconds (an integer: float sums of such values are exact). *)
(* The store maps a key to << >> (no object) or <<body>>; a put either     *)
(* stores the whole object or raises.  The item prefix of the keys is left *)
(* out: one job writes one item.                                           *)
(***************************************************************************)

StoreKeys ==
    {"full.txt", "audio.mp3", "audio.wav", "segments.json", "manifest.json"}
EmptyStore == [k \in StoreKeys |-> << >>]

\* Storage.write_bytes / write_text / write_json with the call returning
Put(st, key, body) == [st EXCEPT ![key] = <<body>>]

\* Storage.exists(key)
Has(st, key) == st[key] # << >>

\* extract_segments: fresh dicts with start, end and the stripped text
extract_segments(raw) ==
    [k \in 1..Len(raw) |->
        [start |-> raw[k].start, end |-> raw[k].end, text |-> Strip(raw[k].text)]]

DISPLAY_SEG_MAX_SECONDS == 10
DISPLAY_SEG_MAX_CHARS   == 520

\* align_cfg = AlignConfig(lookback=250, ahead=9000, threshold=78, min_query_len=10)
align_cfg ==
    [lookback |-> 250, ahead |-> 9000, threshold |-> 78, min_query_len |-> 10]

\* ch of the loop "for i, ch in enumerate(chunks)"
Ch == result[chunk_index + 1]

\* the global offset computed without the chunk's start
GlobalOffsetLocalOnly(chunk_orig_start, local) == local

\* chunk_orig_start + local_a, chunk_orig_start + local_b
GlobalOffset(chunk_orig_start, local) == chunk_orig_start + local

\* the keys the finalize loop deletes, and the keys it adds
LocalFields  == {"orig_char_start_local", "orig_char_end_local"}
GlobalFields == {"orig_char_start", "orig_char_end"}

\* one iteration of the finalize loop "for s in segs" on the dict s
Finalized(s, off, chunk_orig_start) ==
    LET timed == [s EXCEPT !.start = s.start + off, !.end = s.end + off] IN
    IF LocalFields \subseteq DOMAIN s
    THEN [f \in (DOMAIN s \ LocalFields) \cup GlobalFields |->
            IF f = "orig_char_start"
            THEN GlobalOffset(chunk_orig_start, s.orig_char_start_local)
            ELSE IF f = "orig_char_end"
            THEN GlobalOffset(chunk_orig_start, s.orig_char_end_local)
            ELSE timed[f]]
    ELSE timed

\* the entry appended to manifest["chunks"]
ChunkEntry(idx, c, dur, off) ==
    [index |-> idx, orig_char_start |-> c.orig_start, orig_char_end |-> c.orig_end,
     chars |-> Len(c.text), duration_seconds |-> dur, audio_offset_seconds |-> off]

\* the running offset restarted at every chunk
NextOffsetRestarted(off, dur) == dur

\* audio_offset += dur
NextOffset(off, dur) == off + dur

\* stitch_wavs with the format test left out
StitchMismatchIgnored(paths) == FALSE

\* stitch_wavs: some file of wav_paths[1:] has a spec other than the first's
StitchMismatch(paths) ==
    \E k \in 2..Len(paths) : paths[k].spec # paths[1].spec

\* manifest["audio"] of the try branch (mp3) and of the except branch (wav)
AudioRecord(fmt) ==
    IF fmt = "mp3"
    THEN [format |-> "mp3", key |-> "audio.mp3", mime |-> "audio/mpeg"]
    ELSE [format |-> "wav", key |-> "audio.wav", mime |-> "audio/wav"]

\* the list align_segments_to_text leaves in segs
AlignedList == IF Len(norm_source) = 0 THEN job_segs ELSE segments

\* item_id of the job, and the value None of selected_id / force_select_id
ItemId == "item"
NoItem == "none"

\* st.session_state in the "new" view with a pending document
NewView ==
    [mode |-> "new", selected_id |-> NoItem, force_select_id |-> NoItem,
     pending_doc |-> TRUE]

\* the dict appended to history (title, voice, speed, created_at left out)
HistoryEntry == [id |-> ItemId, item_dir |-> "items/" \o ItemId]

\* if not chunks: st.error(...); st.stop()
JobNoChunks ==
    /\ jobPc = "split" /\ splitPc = "done" /\ result = << >>
    /\ jobPc' = "stopped"
    /\ UNCHANGED <<chunk_index, wav_paths, job_segs, audio_offset, all_segments,
                   manifest, status, store, segs_log, master_wav, encoded,
                   sessionVars, normVars, mergeVars, splitVars, alignVars>>

\* the status widget, all_segments, manifest, align_cfg, wav_paths, audio_offset
JobBegin ==
    /\ jobPc = "split" /\ splitPc = "done" /\ result # << >>
    /\ status' = "working"
    /\ all_segments' = << >>
    /\ manifest' = [chunks |-> << >>, audio |-> << >>]
    /\ wav_paths' = << >> /\ audio_offset' = 0 /\ chunk_index' = 0
    /\ jobPc' = "tts"
    /\ UNCHANGED <<job_segs, store, segs_log, master_wav, encoded,
                   sessionVars, normVars, mergeVars, splitVars, alignVars>>

\* tts_to_wav_file returns; dur = wav_duration_seconds(wav_path); append
JobTts(spec, dur) ==
    /\ jobPc = "tts"
    /\ wav_paths' = Append(wav_paths, [spec |-> spec, dur |-> dur])
    /\ jobPc' = "stt"
    /\ UNCHANGED <<chunk_index, job_segs, audio_offset, all_segments, manifest,
                   status, store, segs_log, master_wav, encoded,
                   sessionVars, normVars, mergeVars, splitVars, alignVars>>

\* whisper_segments_verbose_json returns raw; extract, merge, and the call
\* align_segments_to_text(chunk_text, segs, cfg=align_cfg)
JobStt(raw) ==
    /\ jobPc = "stt"
    /\ job_segs' = merge_segments(extract_segments(raw),
                                  DISPLAY_SEG_MAX_SECONDS, DISPLAY_SEG_MAX_CHARS)
    /\ alignPc' = "call" /\ source_text' = Ch.text /\ cfg' = align_cfg
    /\ norm_source' = << >> /\ norm_map' = << >> /\ cursor' = 0
    /\ segments' = << >>
    /\ jobPc' = "align"
    /\ UNCHANGED <<chunk_index, wav_paths, audio_offset, all_segments, manifest,
                   status, store, segs_log, master_wav, encoded, rapidfuzz,
                   sessionVars, normVars, mergeVars, splitVars>>

\* one iteration of the aligner's loop on the next dict of segs
JobAlignSegment ==
    /\ jobPc = "align" /\ Len(segments) < Len(job_segs)
    /\ AlignSegment(job_segs[Len(segments) + 1])

\* the aligner's loop is through segs
JobAlignReturn ==
    /\ jobPc = "align" /\ Len(segments) = Len(job_segs)
    /\ AlignReturn

\* the finalize loop, manifest["chunks"].append(...), audio_offset += dur
JobFinalizeChunk ==
    /\ jobPc = "align" /\ alignPc = "done"
    /\ all_segments' = all_segments \o
           [k \in 1..Len(AlignedList) |->
               Finalized(AlignedList[k], audio_offset, Ch.orig_start)]
    /\ manifest' = [manifest EXCEPT !.chunks =
           Append(@, ChunkEntry(chunk_index, Ch, wav_paths[chunk_index + 1].dur,
                                audio_offset))]
    /\ audio_offset' = NextOffset(audio_offset, wav_paths[chunk_index + 1].dur)
    /\ segs_log' = Append(segs_log, AlignedList)
    /\ chunk_index' = chunk_index + 1
    /\ alignPc' = "idle"
    /\ jobPc' = IF chunk_index + 1 < Len(result) THEN "tts" ELSE "stitch"
    /\ UNCHANGED <<wav_paths, job_segs, status, store, master_wav, encoded,
                   rapidfuzz, source_text, cfg, norm_source, norm_map, cursor,
                   segments, sessionVars, normVars, mergeVars, splitVars>>

\* stitch_wavs(wav_paths, master_wav): every spec equals the first, the frames
\* are written
JobStitch ==
    /\ jobPc = "stitch" /\ ~StitchMismatch(wav_paths)
    /\ master_wav' = <<[spec |-> wav_paths[1].spec,
                        frames |-> [k \in 1..Len(wav_paths) |-> wav_paths[k].dur]]>>
    /\ jobPc' = "write_text"
    /\ UNCHANGED <<chunk_index, wav_paths, job_segs, audio_offset, all_segments,
                   manifest, status, store, segs_log, encoded,
                   sessionVars, normVars, mergeVars, splitVars, alignVars>>

\* the steps of the outer try block that call an engine or the store
RaisingSteps == {"tts", "stt", "write_text", "write_wav", "write_segments",
                 "write_manifest"}

\* the handler without its st.stop(): the script goes on after the try
AfterFailureFallsThrough == "done"

\* where the script is after the except handler: st.stop() ends the run
AfterFailure == "failed"

\* except Exception as e: status "Failed"; st.stop()
Failed ==
    /\ status' = "error"
    /\ jobPc' = AfterFailure
    /\ UNCHANGED <<chunk_index, wav_paths, job_segs, audio_offset, all_segments,
                   manifest, store, segs_log, master_wav, encoded,
                   sessionVars, normVars, mergeVars, splitVars, alignVars>>

\* stitch_wavs raises ValueError before the output file is opened
JobStitchRaises ==
    /\ jobPc = "stitch" /\ StitchMismatch(wav_paths)
    /\ Failed

\* the engine call or the store write of the step raises
JobRaise ==
    /\ jobPc \in RaisingSteps
    /\ Failed

\* storage.write_text(full_text_key, full_text)
JobWriteText ==
    /\ jobPc = "write_text"
    /\ store' = Put(store, "full.txt", text)
    /\ jobPc' = "convert"
    /\ UNCHANGED <<chunk_index, wav_paths, job_segs, audio_offset, all_segments,
                   manifest, status, segs_log, master_wav, encoded,
                   sessionVars, normVars, mergeVars, splitVars, alignVars>>

\* convert_wav_to_mp3 returns (ok) or raises RuntimeError (no ffmpeg, or a
\* non-zero return code): the inner except takes over
JobConvert(ok) ==
    /\ jobPc = "convert"
    /\ encoded' = <<ok>>
    /\ jobPc' = IF ok THEN "write_mp3" ELSE "write_wav"
    /\ UNCHANGED <<chunk_index, wav_paths, job_segs, audio_offset, all_segments,
                   manifest, status, store, segs_log, master_wav,
                   sessionVars, normVars, mergeVars, splitVars, alignVars>>

\* storage.write_bytes(audio_key, ..., "audio/mpeg"); manifest["audio"] = mp3
JobWriteMp3 ==
    /\ jobPc = "write_mp3"
    /\ store' = Put(store, "audio.mp3", [format |-> "mp3", of |-> master_wav[1]])
    /\ manifest' = [manifest EXCEPT !.audio = <<AudioRecord("mp3")>>]
    /\ jobPc' = "write_segments"
    /\ UNCHANGED <<chunk_index, wav_paths, job_segs, audio_offset, all_segments,
                   status, segs_log, master_wav, encoded,
                   sessionVars, normVars, mergeVars, splitVars, alignVars>>

\* the mp3 write raises inside the inner try: the inner except takes over
JobWriteMp3Raises ==
    /\ jobPc = "write_mp3"
    /\ jobPc' = "write_wav"
    /\ UNCHANGED <<chunk_index, wav_paths, job_segs, audio_offset, all_segments,
                   manifest, status, store, segs_log, master_wav, encoded,
                   sessionVars, normVars, mergeVars, splitVars, alignVars>>

\* except branch: storage.write_bytes(audio_wav_key, ...); manifest["audio"] = wav
JobWriteWav ==
    /\ jobPc = "write_wav"
    /\ store' = Put(store, "audio.wav", [format |-> "wav", of |-> master_wav[1]])
    /\ manifest' = [manifest EXCEPT !.audio = <<AudioRecord("wav")>>]
    /\ jobPc' = "write_segments"
    /\ UNCHANGED <<chunk_index, wav_paths, job_segs, audio_offset, all_segments,
                   status, segs_log, master_wav, encoded,
                   sessionVars, normVars, mergeVars, splitVars, alignVars>>

\* storage.write_json(segments_key, all_segments)
JobWriteSegments ==
    /\ jobPc = "write_segments"
    /\ store' = Put(store, "segments.json", all_segments)
    /\ jobPc' = "write_manifest"
    /\ UNCHANGED <<chunk_index, wav_paths, job_segs, audio_offset, all_segments,
                   manifest, status, segs_log, master_wav, encoded,
                   sessionVars, normVars, mergeVars, splitVars, alignVars>>

\* storage.write_json(manifest_key, manifest); status "Done"
JobWriteManifest ==
    /\ jobPc = "write_manifest"
    /\ store' = Put(store, "manifest.json", manifest)
    /\ status' = "complete"
    /\ jobPc' = "done"
    /\ UNCHANGED <<chunk_index, wav_paths, job_segs, audio_offset, all_segments,
                   manifest, segs_log, master_wav, encoded,
                   sessionVars, normVars, mergeVars, splitVars, alignVars>>

\* history.append({...}); save_history(history) returns
JobSaveHistory ==
    /\ jobPc = "done"
    /\ history' = Append(history, HistoryEntry)
    /\ history_json' = history'
    /\ jobPc' = "saved"
    /\ UNCHANGED <<chunk_index, wav_paths, job_segs, audio_offset, all_segments,
                   manifest, status, store, segs_log, master_wav, encoded,
                   session_state, normVars, mergeVars, splitVars, alignVars>>

\* history.append({...}); save_history(history) raises: the script run ends
\* with the exception, outside the try block
JobSaveHistoryRaises ==
    /\ jobPc = "done"
    /\ history' = Append(history, HistoryEntry)
    /\ jobPc' = "crashed"
    /\ UNCHANGED <<chunk_index, wav_paths, job_segs, audio_offset, all_segments,
                   manifest, status, store, segs_log, master_wav, encoded,
                   history_json, session_state,
                   normVars, mergeVars, splitVars, alignVars>>

\* selected_id, force_select_id = item_id; mode = "playback";
\* pending_doc = None; st.rerun()
JobSwitchToPlayback ==
    /\ jobPc = "saved"
    /\ session_state' = [mode |-> "playback", selected_id |-> ItemId,
                         force_select_id |-> ItemId, pending_doc |-> FALSE]
    /\ jobPc' = "rerun"
    /\ UNCHANGED <<chunk_index, wav_paths, job_segs, audio_offset, all_segments,
                   manifest, status, store, segs_log, master_wav, encoded,
                   history, history_json,
                   normVars, mergeVars, splitVars, alignVars>>

(***************************************************************************)
(* Bounds and input sets                                                   *)
(***************************************************************************)

MaxTextLen == 6      \* longest document text given to the splitter
MaxBudget  == 4      \* largest max_chars given to the splitter
MaxFairTextLen == 5  \* longest document text of the calls run to their end
MaxFairBudget  == 3  \* largest max_chars of the calls run to their end
MaxNormLen == 4      \* longest string given to the normalizers
MaxRaw     == 3      \* most raw segments given to merge_segments
MaxTime    == 2      \* latest segment time given to merge_segments

SplitAlphabet == {"a", " ", ".", "\n"}
NormAlphabet  == {"a", "B", "1", " ", "\n", "-", ".", CapIDot}
SegTexts      == { << >>, <<"a">>, <<" ", "a", "a">> }
MergeSeconds  == {1, 2}
MergeChars    == {2, 5}

\* raw segments, each with start <= end
RawSegments ==
    { [start |-> tm[1], end |-> tm[2], text |-> t] :
        tm \in { p \in (0..MaxTime) \X (0..MaxTime) : p[1] <= p[2] },
        t \in SegTexts }

\* AlignConfig() defaults, the configuration app.py passes
DefaultLookback    == 250
DefaultAhead       == 9000
DefaultThreshold   == 78
DefaultMinQueryLen == 10
DefaultConfig ==
    [lookback |-> DefaultLookback, ahead |-> DefaultAhead,
     threshold |-> DefaultThreshold, min_query_len |-> DefaultMinQueryLen]

\* small configurations, on the scale of the bounded source texts
SmallConfigs ==
    [lookback : {0, 3}, ahead : {2}, threshold : {50}, min_query_len : {2}]
AlignConfigs == {DefaultConfig} \cup SmallConfigs

MaxSrcLen == 3       \* longest bounded chunk text given to the aligner
MaxSegs   == 2       \* most segments in the list given to the aligner

\* "Hello world. This is a test."
ExampleSource ==
    <<"H", "e", "l", "l", "o", " ", "w", "o", "r", "l", "d", ".", " ", "T",
      "h", "i", "s", " ", "i", "s", " ", "a", " ", "t", "e", "s", "t", ".">>
\* "This is a test." as a recognizer would return it
ExampleSegText ==
    <<"T", "h", "i", "s", " ", "i", "s", " ", "a", " ", "t", "e", "s", "t",
      ".">>
\* "this is a test"
ExampleQuery ==
    <<"t", "h", "i", "s", " ", "i", "s", " ", "a", " ", "t", "e", "s", "t">>
\* "This is a tesd": one substituted character
ExampleTypoText ==
    <<"T", "h", "i", "s", " ", "i", "s", " ", "a", " ", "t", "e", "s", "d">>
\* "Hello world, this is a tesd": one substituted character in the whole text
ExampleLongTypoText ==
    <<"H", "e", "l", "l", "o", " ", "w", "o", "r", "l", "d", ",", " ", "t",
      "h", "i", "s", " ", "i", "s", " ", "a", " ", "t", "e", "s", "d">>

AlignSources == Strings({"a", "b", " "}, 0, MaxSrcLen) \cup {ExampleSource}
AlignTexts ==
    { << >>, <<"a", "b">>, <<"b", "b">>,
      ExampleSegText, ExampleTypoText, ExampleLongTypoText }

\* "Hello world." as a recognizer would return it
HelloText ==
    <<"H", "e", "l", "l", "o", " ", "w", "o", "r", "l", "d", ".">>
ParagraphBreak == <<"\n", "\n">>

JobChunkMaxChars == 16   \* TTS_CHUNK_MAX_CHARS, on the scale of the documents
MaxDur           == 2    \* longest chunk audio, in seconds

\* the documents: none; two paragraphs; three paragraphs, the middle one
\* without a letter or digit; one paragraph longer than the budget
JobDocs ==
    { << >>,
      HelloText \o ParagraphBreak \o ExampleSegText,
      HelloText \o ParagraphBreak \o <<".", ".", ".">> \o ParagraphBreak
          \o ExampleSegText,
      ExampleSource }

\* wav_duration_seconds of a synthesized chunk
ChunkDurations == {1, MaxDur}

\* (channels, sample width, frame rate) of a synthesized chunk
WavSpecs == { <<1, 2, 24000>>, <<1, 2, 22050>> }

\* the recognizer's segment lists for one chunk
SttResults ==
    { << >>,
      << [start |-> 0, end |-> 1, text |-> <<" ">> \o HelloText] >>,
      << [start |-> 0, end |-> 1, text |-> <<" ", "T", "h", "i", "s", " ", "i", "s", " ", "a">>],
         [start |-> 1, end |-> 2, text |-> <<" ", "t", "e", "s", "t", ".">>] >>,
      << [start |-> 0, end |-> 6, text |-> ExampleSegText],
         [start |-> 6, end |-> 12, text |-> HelloText] >>,
      << [start |-> 0, end |-> 1, text |-> <<"t", "e", "s", "t", ".">>] >> }

\* lists ordered by non-decreasing start, each segment with start <= end
RawLists ==
    { l \in UNION { [1..n -> RawSegments] : n \in 0..MaxRaw } :
        \A k \in 1..(Len(l) - 1) : l[k].start <= l[k + 1].start }

(***************************************************************************)
(* Specifications: one per function, the other frames idle; and the job    *)
(***************************************************************************)

NormIdle ==
    normPc = "idle" /\ normIn = << >> /\ normOut = [norm |-> << >>, map |-> << >>]
    /\ normQ = << >>
MergeIdle ==
    mergePc = "idle" /\ mergeIn = << >> /\ mergeSec = 0 /\ mergeChars = 0
    /\ mergeOut = << >> /\ mergeOut2 = << >>
SplitIdle ==
    splitPc = "idle" /\ text = << >> /\ max_chars = 1 /\ spans = << >> /\ pIdx = 1
    /\ i = 0 /\ cur_start = None /\ cur_end = None /\ chunks = << >> /\ result = << >>
AlignIdle ==
    alignPc = "idle" /\ rapidfuzz = FALSE /\ source_text = << >>
    /\ cfg = DefaultConfig
    /\ norm_source = << >> /\ norm_map = << >> /\ cursor = 0 /\ segments = << >>
JobIdle ==
    jobPc = "idle" /\ chunk_index = 0 /\ wav_paths = << >> /\ job_segs = << >>
    /\ audio_offset = 0 /\ all_segments = << >>
    /\ manifest = [chunks |-> << >>, audio |-> << >>]
    /\ status = "none" /\ store = EmptyStore /\ segs_log = << >>
    /\ master_wav = << >> /\ encoded = << >>
    /\ history = << >> /\ history_json = << >> /\ session_state = NewView

\* ---- the normalizers on one string
NormInit ==
    /\ normPc = "call" /\ normIn \in Strings(NormAlphabet, 0, MaxNormLen)
    /\ normOut = [norm |-> << >>, map |-> << >>] /\ normQ = << >>
    /\ MergeIdle /\ SplitIdle /\ AlignIdle /\ JobIdle

CallNormalizeWithMap ==
    /\ normPc = "call"
    /\ normOut' = normalize_with_map(normIn)
    /\ normPc' = "mapped"
    /\ UNCHANGED <<normIn, normQ, mergeVars, splitVars, alignVars, jobVars>>

CallNormalizeForMatch ==
    /\ normPc = "mapped"
    /\ normQ' = normalize_for_match(normIn)
    /\ normPc' = "done"
    /\ UNCHANGED <<normIn, normOut, mergeVars, splitVars, alignVars, jobVars>>

NormNext == CallNormalizeWithMap \/ CallNormalizeForMatch
SpecNorm == NormInit /\ [][NormNext]_vars

\* ---- merge_segments, then merge_segments on its own result
MergeInit ==
    /\ mergePc = "call" /\ mergeIn \in RawLists
    /\ mergeSec \in MergeSeconds /\ mergeChars \in MergeChars
    /\ mergeOut = << >> /\ mergeOut2 = << >>
    /\ NormIdle /\ SplitIdle /\ AlignIdle /\ JobIdle

CallMerge ==
    /\ mergePc = "call"
    /\ mergeOut' = merge_segments(mergeIn, mergeSec, mergeChars)
    /\ mergePc' = "merged"
    /\ UNCHANGED <<mergeIn, mergeSec, mergeChars, mergeOut2, normVars, splitVars,
                   alignVars, jobVars>>

CallMergeAgain ==
    /\ mergePc = "merged"
    /\ mergeOut2' = merge_segments(mergeOut, mergeSec, mergeChars)
    /\ mergePc' = "done"
    /\ UNCHANGED <<mergeIn, mergeSec, mergeChars, mergeOut, normVars, splitVars,
                   alignVars, jobVars>>

MergeNext == CallMerge \/ CallMergeAgain
SpecMerge == MergeInit /\ [][MergeNext]_vars

\* ---- split_text_into_chunks_with_offsets(text, max_chars)
SplitInit ==
    /\ splitPc = "call"
    /\ text \in Strings(SplitAlphabet, 0, MaxTextLen)
    /\ max_chars \in 1..MaxBudget
    /\ spans = << >> /\ pIdx = 1 /\ i = 0 /\ cur_start = None /\ cur_end = None
    /\ chunks = << >> /\ result = << >>
    /\ NormIdle /\ MergeIdle /\ AlignIdle /\ JobIdle

SplitNext ==
    \/ SplitEmpty \/ SplitSpans \/ HugeParagraph \/ CutPiece \/ CutDone
    \/ NormalParagraph \/ SplitReturn
SpecSplit == SplitInit /\ [][SplitNext]_vars

\* the same call, run to its end: a statement that can be executed is executed
SplitFairInit ==
    /\ splitPc = "call"
    /\ text \in Strings(SplitAlphabet, 0, MaxFairTextLen)
    /\ max_chars \in 1..MaxFairBudget
    /\ spans = << >> /\ pIdx = 1 /\ i = 0 /\ cur_start = None /\ cur_end = None
    /\ chunks = << >> /\ result = << >>
    /\ NormIdle /\ MergeIdle /\ AlignIdle /\ JobIdle
SpecSplitFair == SplitFairInit /\ [][SplitNext]_vars /\ WF_vars(SplitNext)

\* ---- align_segments_to_text(source_text, segments, cfg)
AlignInit ==
    /\ alignPc = "call"
    /\ rapidfuzz \in BOOLEAN
    /\ source_text \in AlignSources
    /\ cfg \in AlignConfigs
    /\ norm_source = << >> /\ norm_map = << >> /\ cursor = 0 /\ segments = << >>
    /\ NormIdle /\ MergeIdle /\ SplitIdle /\ JobIdle

AlignNext ==
    \/ AlignEmptySource
    \/ AlignBegin
    \/ \E t \in AlignTexts : Len(segments) < MaxSegs /\ AlignSegment([text |-> t])
    \/ AlignReturn
SpecAlign == AlignInit /\ [][AlignNext]_vars

\* ---- the generation job on one document
JobInit ==
    /\ splitPc = "call" /\ text \in JobDocs /\ max_chars = JobChunkMaxChars
    /\ spans = << >> /\ pIdx = 1 /\ i = 0 /\ cur_start = None /\ cur_end = None
    /\ chunks = << >> /\ result = << >>
    /\ alignPc = "idle" /\ rapidfuzz \in BOOLEAN /\ source_text = << >>
    /\ cfg = align_cfg
    /\ norm_source = << >> /\ norm_map = << >> /\ cursor = 0 /\ segments = << >>
    /\ jobPc = "split" /\ chunk_index = 0 /\ wav_paths = << >> /\ job_segs = << >>
    /\ audio_offset = 0 /\ all_segments = << >>
    /\ manifest = [chunks |-> << >>, audio |-> << >>]
    /\ status = "none" /\ store = EmptyStore /\ segs_log = << >>
    /\ master_wav = << >> /\ encoded = << >>
    /\ history = << >> /\ history_json = << >> /\ session_state = NewView
    /\ NormIdle /\ MergeIdle

JobNext ==
    \/ SplitEmpty \/ SplitSpans \/ HugeParagraph \/ CutPiece \/ CutDone
    \/ NormalParagraph \/ SplitReturn
    \/ JobNoChunks \/ JobBegin
    \/ \E spec \in WavSpecs, dur \in ChunkDurations : JobTts(spec, dur)
    \/ \E raw \in SttResults : JobStt(raw)
    \/ AlignEmptySource \/ AlignBegin \/ JobAlignSegment \/ JobAlignReturn
    \/ JobFinalizeChunk
    \/ JobStitch \/ JobStitchRaises \/ JobRaise
    \/ JobWriteText
    \/ \E ok \in BOOLEAN : JobConvert(ok)
    \/ JobWriteMp3 \/ JobWriteMp3Raises \/ JobWriteWav
    \/ JobWriteSegments \/ JobWriteManifest
    \/ JobSaveHistory \/ JobSaveHistoryRaises \/ JobSwitchToPlayback
SpecJob == JobInit /\ [][JobNext]_vars


(***************************************************************************)
(* Claims about split_text_into_chunks_with_offsets (SpecSplit)            *)
(***************************************************************************)

\* the texts of a chunk list, concatenated in order
RECURSIVE ConcatTexts(_)
ConcatTexts(chs) ==
    IF chs = << >> THEN << >> ELSE Head(chs).text \o ConcatTexts(Tail(chs))

\* document index k lies in a returned chunk
InReturnedChunk(k) ==
    \E c \in 1..Len(result) : result[c].orig_start <= k /\ k < result[c].orig_end

\* document index k lies in a chunk that was produced and dropped as whitespace-only
InDroppedBlankChunk(k) ==
    \E d \in 1..Len(chunks) :
        /\ chunks[d].orig_start <= k /\ k < chunks[d].orig_end
        /\ Len(Strip(chunks[d].text)) = 0
        /\ \A c \in 1..Len(result) : result[c] # chunks[d]

\* C1: when the splitter has returned, the chunks are in strictly increasing
\* orig_start order with non-overlapping spans, each chunk's text is
\* text[orig_start:orig_end], every character outside the returned chunks is
\* whitespace of a dropped whitespace-only chunk, and the produced spans
\* (dropped ones re-inserted) concatenate to the document.
C1_ChunksPartitionDocument ==
    splitPc = "done" =>
        /\ \A c \in 1..Len(result) :
              /\ 0 <= result[c].orig_start
              /\ result[c].orig_start < result[c].orig_end
              /\ result[c].orig_end <= Len(text)
              /\ result[c].text = Slice(text, result[c].orig_start, result[c].orig_end)
        /\ \A c \in 1..(Len(result) - 1) :
              /\ result[c].orig_start < result[c + 1].orig_start
              /\ result[c].orig_end <= result[c + 1].orig_start
        /\ \A k \in 0..(Len(text) - 1) :
              ~InReturnedChunk(k) => IsSpaceChar(At(text, k)) /\ InDroppedBlankChunk(k)
        /\ ConcatTexts(chunks) = text
        /\ result = FilterEmptyish(chunks)

\* C1 witness: a returned chunk packs two paragraphs and a whitespace-only
\* chunk was dropped.
C1_Witness ==
    /\ splitPc = "done"
    /\ Len(chunks) > Len(result)
    /\ \E c \in 1..Len(result) : \E p \in 1..Len(spans) :
          result[c].orig_start < spans[p][1] /\ spans[p][1] < result[c].orig_end

\* C2: when the splitter has returned, every chunk's text is at most max_chars long.
C2_ChunkWithinBudget ==
    splitPc = "done" => \A c \in 1..Len(result) : Len(result[c].text) <= max_chars

\* C2 witness: an oversized paragraph was cut into several pieces, one of them
\* exactly max_chars long, and all were returned.
C2_Witness ==
    /\ splitPc = "done"
    /\ \E p \in 1..Len(spans) :
          /\ spans[p][2] - spans[p][1] > max_chars
          /\ \E c \in 1..Len(result) :
                /\ spans[p][1] <= result[c].orig_start
                /\ result[c].orig_end <= spans[p][2]
                /\ Len(result[c].text) = max_chars
    /\ Len(result) >= 2

\* the while loop has just cut a piece from a tail that fits the budget
TailPieceCut ==
    /\ splitPc = "cut"
    /\ Len(chunks') = Len(chunks) + 1
    /\ spans[pIdx][2] - i <= max_chars

\* C20 as stated: once the rest of an oversized paragraph is at most max_chars
\* long, it is emitted as one chunk.
C20_TailNotSplit ==
    [][TailPieceCut => chunks'[Len(chunks')].orig_end = spans[pIdx][2]]_vars

\* the cut the rule picks in the rest of the paragraph from k: the last ". "
\* when it lies at or after int(0.55 * max_chars), else the last space
TailCut(t, k, p_end, mc) ==
    LET rest == Slice(t, k, p_end)
        dot  == Rfind(rest, <<".", " ">>)
    IN  IF dot >= (mc * 55) \div 100 THEN dot ELSE Rfind(rest, <<" ">>)

\* C20 amended: the cut rule is applied to the last window too: once the rest
\* of an oversized paragraph is at most max_chars long, it is emitted as one
\* chunk exactly when the rule finds no cut after its first character, and is
\* cut at the rule's position otherwise.
C20_TailSplitOnlyAtCut ==
    [][TailPieceCut =>
         \A c \in { TailCut(text, i, spans[pIdx][2], max_chars) } :
            /\ chunks'[Len(chunks')].orig_start = i
            /\ c <= 0 => chunks'[Len(chunks')].orig_end = spans[pIdx][2]
            /\ c > 0 => chunks'[Len(chunks')].orig_end = i + c
            /\ i' = chunks'[Len(chunks')].orig_end
      ]_vars

\* C20 witness: the rest of an oversized paragraph fitted the budget and was
\* cut in two all the same.
C20_Witness ==
    /\ splitPc = "done"
    /\ \E p \in 1..Len(spans) : \E d \in 1..Len(chunks) :
          /\ spans[p][2] - spans[p][1] > max_chars
          /\ spans[p][1] < chunks[d].orig_start
          /\ spans[p][2] - chunks[d].orig_start <= max_chars
          /\ chunks[d].orig_end < spans[p][2]

(***************************************************************************)
(* Claims about align_segments_to_text and find_best_match (SpecAlign)     *)
(***************************************************************************)

\* the segment carries the alignment fields
IsAligned(sg) == "orig_char_start_local" \in DOMAIN sg

\* the segment carries no field but its text
HasNoAlignmentFields(sg) == DOMAIN sg = {"text"}

\* C3: the orig_char_start values of the aligned segments, in list order, are
\* non-decreasing.
C3_MonotonicAlignment ==
    \A j \in 1..Len(segments) : \A k \in 1..Len(segments) :
        (j < k /\ IsAligned(segments[j]) /\ IsAligned(segments[k]))
            => segments[j].orig_char_start_local <= segments[k].orig_char_start_local

\* C4: inside the loop of one call, the cursor after a segment is never smaller
\* than the cursor before it.
C4_CursorOnlyMovesForward == [][alignPc = "loop" => cursor' >= cursor]_vars

\* the first segment of the call is the example: source "Hello world. This is a
\* test.", normalized query "this is a test", cursor 0, default configuration
ExampleCase ==
    /\ source_text = ExampleSource
    /\ cfg = DefaultConfig
    /\ Len(segments) >= 1
    /\ QueryOf(segments[1]) = ExampleQuery

\* the original text selected by the segment's span
SpanText(sg) == Slice(source_text, sg.orig_char_start_local, sg.orig_char_end_local)

\* "This is a test"
ExampleSpanText ==
    <<"T", "h", "i", "s", " ", "i", "s", " ", "a", " ", "t", "e", "s", "t">>

\* the query occurs literally in the window searched from cursor cur
LiteralOccurrence(q, cur) ==
    Find(norm_source, q, StartSearch(cur, cfg),
         EndSearch(Len(norm_source), cur, cfg)) # -1

\* C5 as stated: the example is accepted in the exact phase with align_score
\* 100 and its span selects "This is a test." with the final period.
C5_ExactMatchWithPeriod ==
    ExampleCase =>
        /\ IsAligned(segments[1])
        /\ LiteralOccurrence(ExampleQuery, 0)
        /\ segments[1].align_score = 100
        /\ SpanText(segments[1]) = ExampleSegText

\* C5 amended: the example is accepted in the exact phase with align_score 100
\* and its span is [13, 27), which selects "This is a test" without the final
\* period.
C5_ExactMatchWithoutPeriod ==
    ExampleCase =>
        /\ IsAligned(segments[1])
        /\ LiteralOccurrence(ExampleQuery, 0)
        /\ segments[1].align_score = 100
        /\ segments[1].orig_char_start_local = 13
        /\ segments[1].orig_char_end_local = 27
        /\ SpanText(segments[1]) = ExampleSpanText

\* C5 witness: the example segment has been processed and is aligned.
C5_Witness == ExampleCase /\ IsAligned(segments[1])

\* the window starts the fuzzy phase visits: range(region_start,
\* region_end - L + 1, step), up to and including the first window scoring >= 96
ScannedWindows(q, cur) ==
    LET start == StartSearch(cur, cfg)
        stop  == (EndSearch(Len(norm_source), cur, cfg) - Len(q)) + 1
        step  == Max(1, Len(q) \div 6)
        all   == { p \in start..(stop - 1) : (p - start) % step = 0 }
    IN  { p \in all :
            \A r \in all :
                r < p => Score(q, Slice(norm_source, r, r + Len(q))) < 96 }

\* the best score among the scanned windows, -1 when none is scanned
BestScannedScore(q, cur) ==
    LET scores == { Score(q, Slice(norm_source, p, p + Len(q))) :
                    p \in ScannedWindows(q, cur) }
    IN  IF scores = {} THEN -1
        ELSE CHOOSE m \in scores : \A o \in scores : o <= m

\* C6: when the loop has processed a segment whose query has at least
\* min_query_len characters and no literal occurrence in the search window, the
\* segment is aligned exactly if the best score among the scanned windows is at
\* least cfg.threshold; otherwise it carries no alignment field and the loop
\* goes on to the remaining segments.
C6_FuzzyThresholdFailSoft ==
    [][(alignPc = "loop" /\ Len(segments') = Len(segments) + 1) =>
         \A sg \in { segments'[Len(segments')] } :
         \A q \in { QueryOf(sg) } :
            (Len(q) > 0 /\ Len(q) >= cfg.min_query_len /\ ~LiteralOccurrence(q, cursor))
              => \A best \in { BestScannedScore(q, cursor) } :
                   /\ IsAligned(sg) <=> best >= cfg.threshold
                   /\ IsAligned(sg) => sg.align_score = best
                   /\ ~IsAligned(sg) => HasNoAlignmentFields(sg) /\ alignPc' = "loop"
      ]_vars

\* C6 witness: a first segment with a long enough query was rejected by the
\* fuzzy phase and the second segment was then accepted by it, with a score
\* below 100.
C6_Witness ==
    /\ Len(segments) = 2
    /\ ~IsAligned(segments[1])
    /\ Len(QueryOf(segments[1])) >= cfg.min_query_len
    /\ IsAligned(segments[2])
    /\ segments[2].align_score < 100

\* C7: a processed segment whose normalized query is empty or shorter than
\* cfg.min_query_len carries no alignment field.
C7_ShortQueryNeverAligned ==
    \A k \in 1..Len(segments) :
        \A q \in { QueryOf(segments[k]) } :
            (Len(q) = 0 \/ Len(q) < cfg.min_query_len)
                => HasNoAlignmentFields(segments[k])

\* C7 witness: a processed segment whose query is non-empty, shorter than
\* cfg.min_query_len and a literal substring of the normalized source.
C7_Witness ==
    \E k \in 1..Len(segments) :
        \E q \in { QueryOf(segments[k]) } :
            /\ Len(q) > 0
            /\ Len(q) < cfg.min_query_len
            /\ Find(norm_source, q, 0, Len(norm_source)) # -1
            /\ HasNoAlignmentFields(segments[k])

\* the loop has just processed one more segment
SegmentProcessed == alignPc = "loop" /\ Len(segments') = Len(segments) + 1

\* C16: when the loop accepts a match for a query at cursor c, the matched
\* span [norm_s, norm_e) of the normalized source lies inside
\* [max(0, c - lookback), min(len(norm_source), c + ahead)], and the segment's
\* start is the original index of norm_s.
C16_MatchInsideSearchWindow ==
    [][SegmentProcessed =>
         \A sg \in { segments'[Len(segments')] } :
            IsAligned(sg) =>
              \A q \in { QueryOf(sg) } :
                LET norm_e == cursor'
                    norm_s == cursor' - Len(q)
                IN  /\ Max(0, cursor - cfg.lookback) <= norm_s
                    /\ norm_s >= cursor - cfg.lookback
                    /\ norm_e <= Min(Len(norm_source), cursor + cfg.ahead)
                    /\ sg.orig_char_start_local = At(norm_map, norm_s)
                    /\ sg.orig_char_end_local = At(norm_map, norm_e - 1) + 1
      ]_vars

\* C16 witness: a second segment was aligned under a configuration whose
\* ahead is smaller than the normalized source.
C16_Witness ==
    /\ Len(segments) = 2
    /\ IsAligned(segments[2])
    /\ cfg.ahead < Len(norm_source)

\* C17: when the loop rejects a segment, the cursor becomes
\* min(len(norm_source), cursor + max(1, len(q) // 3)), the segment carries no
\* alignment field, and the loop goes on.
C17_RejectionAdvancesCursor ==
    [][SegmentProcessed =>
         \A sg \in { segments'[Len(segments')] } :
            ~IsAligned(sg) =>
              \A q \in { QueryOf(sg) } :
                /\ cursor' = Min(Len(norm_source), cursor + Max(1, Len(q) \div 3))
                /\ cursor' >= cursor
                /\ HasNoAlignmentFields(sg)
                /\ alignPc' = "loop"
      ]_vars

\* C17 witness: one rejected segment whose third of the query length exceeds
\* the normalized source, so that the cap was applied, and one rejected
\* segment with an empty query after it.
C17_Witness ==
    /\ Len(segments) = 2
    /\ ~IsAligned(segments[1]) /\ ~IsAligned(segments[2])
    /\ Len(QueryOf(segments[1])) \div 3 > Len(norm_source)
    /\ Len(QueryOf(segments[2])) = 0
    /\ cursor = Len(norm_source)

(***************************************************************************)
(* Claims about merge_segments (SpecMerge)                                 *)
(***************************************************************************)

EndsNonDecreasing(l) == \A k \in 1..(Len(l) - 1) : l[k].end <= l[k + 1].end

\* C8 as stated: for every list ordered by non-decreasing start, merging the
\* merged list again returns the merged list.
C8_MergeIdempotent ==
    mergePc = "done" => mergeOut2 = mergeOut

\* C8 amended: for every list ordered by non-decreasing start whose end values
\* are non-decreasing too, merging the merged list again returns the merged list.
C8_MergeIdempotentOrderedEnds ==
    (mergePc = "done" /\ EndsNonDecreasing(mergeIn)) => mergeOut2 = mergeOut

\* C8 witness: ordered ends, and the first merge both combined raw segments and
\* flushed a running segment.
C8_Witness ==
    /\ mergePc = "done" /\ EndsNonDecreasing(mergeIn)
    /\ Len(mergeOut) >= 2
    /\ \E m \in 1..Len(mergeOut) : m < Len(mergeOut) /\ Len(mergeOut[m].text) > 2

\* segment m satisfies both bounds
WithinBounds(m, max_seconds, max_chrs) ==
    m.end - m.start <= max_seconds /\ Len(m.text) <= max_chrs

\* C9: every merged segment satisfies both bounds, or is one raw input segment
\* (with its text stripped) that by itself exceeds a bound.
C9_MergedWithinBoundsOrSingleRaw ==
    mergePc \in {"merged", "done"} =>
        \A m \in 1..Len(mergeOut) :
            \/ WithinBounds(mergeOut[m], mergeSec, mergeChars)
            \/ \E k \in 1..Len(mergeIn) :
                  /\ mergeOut[m] = [start |-> mergeIn[k].start, end |-> mergeIn[k].end,
                                    text |-> Strip(mergeIn[k].text)]
                  /\ ~WithinBounds(mergeOut[m], mergeSec, mergeChars)

\* C9 witness: the result holds a combined segment and an over-bound single one.
C9_Witness ==
    /\ mergePc = "merged"
    /\ \E m \in 1..Len(mergeOut) : ~WithinBounds(mergeOut[m], mergeSec, mergeChars)
    /\ \E m \in 1..Len(mergeOut) : Len(mergeOut[m].text) > 2

(***************************************************************************)
(* Claims about the normalizers (SpecNorm)                                 *)
(***************************************************************************)

\* C10: normalize_with_map returns a string and a map of the same length, every
\* map entry is an index into the input, and each output character is the
\* lowercased input character at that index when that character is
\* alphanumeric, and a space when it is whitespace or punctuation.
C10_NormalizationMapValid ==
    normPc \in {"mapped", "done"} =>
        /\ Len(normOut.norm) = Len(normOut.map)
        /\ \A k \in 1..Len(normOut.map) :
              /\ 0 <= normOut.map[k] /\ normOut.map[k] < Len(normIn)
              /\ LET c == At(normIn, normOut.map[k]) IN
                 IF IsAlnumChar(c) THEN Lower(c) = << normOut.norm[k] >>
                 ELSE normOut.norm[k] = " "

\* C11: for every string, normalize_for_match returns the first component of
\* what normalize_with_map returns.
C11_QueryNormalizerSameTransform ==
    normPc = "done" => normQ = normOut.norm

\* C11 witness: both normalizers ran on a string that starts with a character
\* normalized to a space, has a hyphen break or an upper-case letter, and
\* yields a non-empty result.
C11_Witness ==
    /\ normPc = "done"
    /\ Len(normQ) > 0
    /\ ~IsAlnumChar(At(normIn, 0))
    /\ \E k \in 0..(Len(normIn) - 1) :
          IsHyphenBreak(normIn, k) \/ At(normIn, k) \in Range(UpperLetters)

\* a lower-case alphanumeric character
IsLowerAlnumChar(c) == c \in Range(LowerLetters) \cup Digits

\* n has only lower-case alphanumerics and single spaces, none leading or trailing
IsNormalForm(n) ==
    /\ \A k \in 1..Len(n) : n[k] = " " \/ IsLowerAlnumChar(n[k])
    /\ \A k \in 1..(Len(n) - 1) : ~(n[k] = " " /\ n[k + 1] = " ")
    /\ Len(n) > 0 => (n[1] # " " /\ n[Len(n)] # " ")

\* C18: the output of both normalizers has only lower-case alphanumerics and
\* single spaces, with no two adjacent spaces and no leading or trailing space;
\* no position of a hyphen-newline break and of the whitespace run after it
\* produces an output character; and normalizing the output returns it unchanged.
C18_NormalizedAlphabet ==
    normPc = "done" =>
        /\ IsNormalForm(normOut.norm)
        /\ IsNormalForm(normQ)
        /\ \A k \in 0..(Len(normIn) - 1) :
              IsHyphenBreak(normIn, k) =>
                  \A j \in k..(SkipBreak(normIn, k + 1) - 1) :
                      j \notin Range(normOut.map)
        /\ normalize_with_map(normOut.norm).norm = normOut.norm
        /\ normalize_for_match(normQ) = normQ

\* C18 witness: a hyphen break between two alphanumerics joined them, in a
\* string that also has a character normalized away at its end.
C18_Witness ==
    /\ normPc = "done"
    /\ \E k \in 1..(Len(normIn) - 1) :
          /\ IsHyphenBreak(normIn, k)
          /\ IsAlnumChar(At(normIn, k - 1))
    /\ Len(normOut.norm) >= 1
    /\ ~IsAlnumChar(At(normIn, Len(normIn) - 1))

(***************************************************************************)
(* Claims about the generation job                                         *)
(***************************************************************************)

\* the sum of duration_seconds of the first k entries of manifest["chunks"]
RECURSIVE DurationsBefore(_, _)
DurationsBefore(entries, k) ==
    IF k = 0 THEN 0
    ELSE entries[k].duration_seconds + DurationsBefore(entries, k - 1)

\* the number of segments of the first k chunks
RECURSIVE SegsBefore(_, _)
SegsBefore(log, k) ==
    IF k = 0 THEN 0 ELSE Len(log[k]) + SegsBefore(log, k - 1)

\* the final-list segment of the j-th segment of the k-th chunk gone through
FinalSegment(k, j) == all_segments[SegsBefore(segs_log, k - 1) + j]

\* C12: the manifest entries are in chunk order, the entry of chunk i has
\* audio_offset_seconds equal to the sum of duration_seconds of the chunks
\* before it, and every segment of chunk i is in the final segment list with
\* its chunk-local start and end plus that offset; the stored segment list
\* and manifest of a completed job are these.
C12_OffsetAccumulation ==
    /\ Len(segs_log) = Len(manifest.chunks)
    /\ \A k \in 1..Len(manifest.chunks) :
          /\ manifest.chunks[k].index = k - 1
          /\ manifest.chunks[k].duration_seconds = wav_paths[k].dur
          /\ manifest.chunks[k].audio_offset_seconds =
                 DurationsBefore(manifest.chunks, k - 1)
    /\ Len(all_segments) = SegsBefore(segs_log, Len(segs_log))
    /\ \A k \in 1..Len(segs_log) : \A j \in 1..Len(segs_log[k]) :
          /\ FinalSegment(k, j).text = segs_log[k][j].text
          /\ FinalSegment(k, j).start =
                 segs_log[k][j].start + DurationsBefore(manifest.chunks, k - 1)
          /\ FinalSegment(k, j).end =
                 segs_log[k][j].end + DurationsBefore(manifest.chunks, k - 1)
    /\ jobPc = "done" =>
          /\ store["segments.json"] = <<all_segments>>
          /\ store["manifest.json"] = <<manifest>>

\* a completed job over three chunks of durations 1, MaxDur and 1 whose third
\* chunk has a segment, which starts at or after 1 + MaxDur
C12_Witness ==
    /\ jobPc = "done" /\ Len(result) = 3
    /\ wav_paths[1].dur = 1 /\ wav_paths[2].dur = MaxDur
    /\ Len(segs_log[3]) > 0
    /\ all_segments[Len(all_segments)].start >= 1 + MaxDur
    /\ manifest.chunks[3].audio_offset_seconds = 1 + MaxDur

\* two of the synthesized chunk audios differ in (channels, width, rate)
FormatsDiffer ==
    \E a, b \in 1..Len(wav_paths) : wav_paths[a].spec # wav_paths[b].spec

\* every chunk has gone through the loop and stitch_wavs has been called
StitchCalled ==
    result # << >> /\ Len(manifest.chunks) = Len(result) /\ jobPc # "stitch"

\* C13: once stitch_wavs has been called on chunk audios of which one differs
\* in format from the first, there is no stitched output, the job is in the
\* failed state, and nothing has been written to the store.
C13_FatalStitchError ==
    (StitchCalled /\ FormatsDiffer) =>
        /\ jobPc = "failed" /\ status = "error"
        /\ master_wav = << >>
        /\ \A k \in StoreKeys : ~Has(store, k)

\* a failed job over three chunks whose third audio alone differs from the first
C13_Witness ==
    /\ jobPc = "failed" /\ StitchCalled /\ Len(result) = 3
    /\ wav_paths[2].spec = wav_paths[1].spec
    /\ wav_paths[3].spec # wav_paths[1].spec

\* the artifacts of the item in the store
NoArtifacts == \A k \in StoreKeys : ~Has(store, k)
AllArtifacts ==
    /\ Has(store, "full.txt")
    /\ Has(store, "audio.mp3") \/ Has(store, "audio.wav")
    /\ Has(store, "segments.json")
    /\ Has(store, "manifest.json")

\* C14: after a job has aborted with a fatal error the store holds none of the
\* item's artifacts, and after any job has ended it holds either all of them
\* (full text, audio, segment list, manifest) or none.
C14_NoPartialArtifacts ==
    /\ jobPc = "failed" => NoArtifacts
    /\ jobPc \in {"failed", "done", "stopped"} => (NoArtifacts \/ AllArtifacts)

\* the manifest's audio record names an object of the store, its format and
\* mime are those of that object, and the store holds no other audio object
ManifestNamesStoredAudio ==
    /\ manifest.audio # << >>
    /\ \E rec \in { manifest.audio[1] } :
          /\ rec.key \in {"audio.mp3", "audio.wav"}
          /\ Has(store, rec.key)
          /\ store[rec.key][1].format = rec.format
          /\ rec.mime = (IF rec.format = "mp3" THEN "audio/mpeg" ELSE "audio/wav")
          /\ rec.key = (IF rec.format = "mp3" THEN "audio.mp3" ELSE "audio.wav")
          /\ \A k \in {"audio.mp3", "audio.wav"} \ {rec.key} : ~Has(store, k)

\* C15: in a completed job, when convert_wav_to_mp3 raised the store holds the
\* WAV audio and the manifest's audio record says format wav with the WAV key
\* and mime; when it returned the record says mp3; and the record names
\* exactly the audio object written to the store.
C15_FormatFallbackRecorded ==
    jobPc = "done" =>
        /\ ManifestNamesStoredAudio
        /\ encoded = <<FALSE>> => manifest.audio[1].format = "wav"
        /\ encoded = <<TRUE>> => manifest.audio[1].format = "mp3"

\* in a completed job the manifest's audio record names exactly the audio
\* object written to the store, and says wav when convert_wav_to_mp3 raised
FallbackRecordedWhenConvertRaises ==
    jobPc = "done" =>
        /\ ManifestNamesStoredAudio
        /\ encoded = <<FALSE>> => manifest.audio[1].format = "wav"

\* C19: every aligned segment of the final list carries the owning chunk's
\* orig_start plus the chunk-local match offsets, within the chunk's span and
\* with start before end; no final segment carries a chunk-local field; and a
\* final segment has align_score exactly when it has orig_char_start and
\* orig_char_end.
C19_GlobalCharacterOffsets ==
    \A k \in 1..Len(segs_log) : \A j \in 1..Len(segs_log[k]) :
        \E s \in { FinalSegment(k, j) } : \E l \in { segs_log[k][j] } :
            /\ DOMAIN s \cap LocalFields = { }
            /\ ("align_score" \in DOMAIN s) <=> ("orig_char_start" \in DOMAIN s)
            /\ ("align_score" \in DOMAIN s) <=> ("orig_char_end" \in DOMAIN s)
            /\ ("align_score" \in DOMAIN s) <=> ("align_score" \in DOMAIN l)
            /\ "align_score" \in DOMAIN s =>
                  /\ LocalFields \subseteq DOMAIN l
                  /\ s.orig_char_start =
                         result[k].orig_start + l.orig_char_start_local
                  /\ s.orig_char_end =
                         result[k].orig_start + l.orig_char_end_local
                  /\ result[k].orig_start <= s.orig_char_start
                  /\ s.orig_char_start < s.orig_char_end
                  /\ s.orig_char_end <= result[k].orig_end

\* a completed job whose final list has an aligned segment of a chunk that
\* does not start the document, and a segment that was not aligned
C19_Witness ==
    /\ jobPc = "done"
    /\ \E k \in 2..Len(segs_log) : \E j \in 1..Len(segs_log[k]) :
          /\ "align_score" \in DOMAIN FinalSegment(k, j)
          /\ result[k].orig_start > 0
          /\ FinalSegment(k, j).orig_char_start >= result[k].orig_start
    /\ \E n \in 1..Len(all_segments) : "align_score" \notin DOMAIN all_segments[n]

(***************************************************************************)
(* Further claims about align_segments_to_text                             *)
(***************************************************************************)

\* C21: in every state of align_segments_to_text the cursor is at least 0 and
\* at most len(norm_source); and when the normalized source text is empty no
\* segment goes through the loop: the list is returned as it was given.
C21_CursorWithinSource ==
    (cfg.lookback >= 0 /\ cfg.ahead >= 0) =>
        /\ 0 <= cursor /\ cursor <= Len(norm_source)
        /\ (alignPc # "call" /\ Len(normalize_with_map(source_text).norm) = 0) =>
              /\ alignPc = "done" /\ segments = << >> /\ cursor = 0

\* two segments were rejected on a one-character source: the second
\* rejection left the cursor at len(norm_source)
C21_Witness ==
    /\ alignPc = "loop" /\ Len(segments) = 2
    /\ ~IsAligned(segments[1]) /\ ~IsAligned(segments[2])
    /\ Len(norm_source) = 1 /\ cursor = 1

(***************************************************************************)
(* Termination of split_text_into_chunks_with_offsets                      *)
(***************************************************************************)

\* one iteration of the loop "while i < p_end" of an oversized paragraph
CutIteration == splitPc = "cut" /\ Len(chunks') = Len(chunks) + 1

\* C22: every iteration of the loop that cuts an oversized paragraph ends
\* with piece_end > i and piece_end <= p_end, so that i strictly increases up
\* to the paragraph end; and every call of the splitter returns.
C22_SplitTerminates ==
    /\ [][CutIteration =>
            /\ i' > i /\ i' <= spans[pIdx][2]
            /\ chunks'[Len(chunks')].orig_start = i
            /\ chunks'[Len(chunks')].orig_end = i'
        ]_vars
    /\ <>(splitPc = "done")

\* a call that has returned after cutting one oversized paragraph into three
\* pieces or more
C22_Witness ==
    /\ splitPc = "done" /\ Len(spans) = 1
    /\ spans[1][2] - spans[1][1] > max_chars
    /\ Len(chunks) >= 3

(***************************************************************************)
(* The history and the session after a generation job                      *)
(***************************************************************************)

\* the item is listed in the stored history
ItemInStoredHistory ==
    \E k \in 1..Len(history_json) : history_json[k].id = ItemId

\* the session shows, or is about to select, the item
SessionOnItem ==
    \/ session_state.selected_id = ItemId
    \/ session_state.force_select_id = ItemId

\* C23: in every state, an item listed in the stored history has its full
\* text, audio, segment list and manifest in the store; and a job that has
\* failed has added no entry to the stored history and has not switched the
\* session to the playback of the item.
C23_HistoryAfterArtifacts ==
    /\ ItemInStoredHistory => AllArtifacts
    /\ SessionOnItem => (ItemInStoredHistory /\ session_state.mode = "playback")
    /\ (status = "error" \/ jobPc \in {"failed", "stopped", "crashed"}) =>
          /\ ~ItemInStoredHistory
          /\ ~SessionOnItem /\ session_state = NewView

\* a completed job whose entry is in the stored history, with the session
\* switched to the playback of the item
C23_Witness ==
    /\ jobPc = "rerun" /\ status = "complete"
    /\ ItemInStoredHistory /\ AllArtifacts
    /\ session_state.mode = "playback" /\ session_state.selected_id = ItemId
====
